---- MODULE Spec2Model ----
(***************************************************************************)
(* sentry.tasks.post_process: the post-ingestion pipeline                  *)
(* post_process_group and its helpers, as a state machine.                 *)
(*                                                                         *)
(* One project, one group (issue).  Invocations of post_process_group are  *)
(* delivered by the task scheduler and run concurrently; an invocation     *)
(* takes one step per stage, and one per store call where a stage makes    *)
(* several.  Every call an invocation makes that is visible outside it is  *)
(* appended to the invocation's trace as a pair <<operation, argument>>.   *)
(* A call on a collaborator that is unreachable (the dedup redis cluster,  *)
(* the cache, the database, the task broker) raises; an exception that     *)
(* leaves post_process_group ends the trace with <<"raise", stage>>.       *)
(***************************************************************************)
EXTENDS Integers, Sequences, FiniteSets, TLC

(* ------------------------------ bounds -------------------------------- *)
\* Invocations of post_process_group the scheduler delivers.
MaxInv == 2
\* Clock advances (specification SpecTTL).
MaxTicks == 2
\* Additions and removals of ServiceHook rows.
MaxHookChanges == 1
\* Clock advances in the hook-list specification SpecHooks.
MaxHookTicks == 3
\* Failures and recoveries of the collaborators (specification SpecFaults).
MaxFaults == 1
\* Updates of the Group row and of the options by users.
MaxUpdates == 1

(* ------------------------- program constants -------------------------- *)
\* ex=60 * 60 of the pp:{project}/{event} key.
DEDUP_TTL == 3600
\* cache.set(cache_key, result, 60) of servicehooks:1:{project}.
SERVICEHOOKS_TTL == 60
\* cache.set(cache_key, ..., 60) of servicehooks-error-created:1:{project}.
ERROR_HOOKS_TTL == 60

(* ------------------------------- data --------------------------------- *)
None == "none"
Inv == 1..MaxInv

\* The events the scheduler may deliver (all of the one group): e1 and e2
\* everywhere, e3 and e4 too where the event's type and is_new must vary
\* apart.
EventIds == {"e1", "e2"}
AllEvents == {"e1", "e2", "e3", "e4"}
\* event.get_event_type()
EventType(e) == IF e \in {"e1", "e3"} THEN "error" ELSE "default"
\* The is_new flag the scheduler passes with the event.
IsNew(e) == e \in {"e1", "e4"}
\* The is_regression and is_sample flags the scheduler passes with the event.
IsRegression(e) == e \in {"e2", "e3"}
IsSample(e) == e \in {"e2", "e4"}
\* event.group_id
GroupId == "g1"
\* The project's ownership rules, in rule-list order: the events each rule
\* matches and its owner.
OwnershipRules == <<[matches |-> {"e1"}, owner |-> "alice"],
                    [matches |-> {"e1"}, owner |-> "carol"]>>
\* Evaluation of a rule list against an event: the first matching rule's
\* owner, or None.
RECURSIVE FirstMatch(_, _)
FirstMatch(rules, e) ==
    IF rules = <<>> THEN None
    ELSE IF e \in Head(rules).matches THEN Head(rules).owner
    ELSE FirstMatch(Tail(rules), e)
\* ProjectOwnership.get_autoassign_owner(project_id, event.data): the first
\* matching ownership rule's owner, or None.
get_autoassign_owner(e) == FirstMatch(OwnershipRules, e)
\* The user a manual assignment assigns the group to.
ManualUser == "bob"

\* RuleProcessor(event, ..., has_reappeared).apply(): the callbacks the rule
\* engine returns, each named by what it does when it is run.
RuleCallbacks(e, reappeared) ==
    IF e = "e1"
    THEN (IF reappeared THEN <<"raise", "ok">> ELSE <<"ok">>)
    ELSE (IF reappeared THEN <<"raise">> ELSE <<>>)

\* plugins.for_project(project), in registration order, and what each
\* plugin's post_process does for an event.
Plugins == <<"p1", "p2", "p3">>
PluginOutcome(p, e) ==
    IF e = "e1"
    THEN (CASE p = "p1" -> "PluginError" [] p = "p2" -> "raise" [] OTHER -> "ok")
    ELSE (CASE p = "p2" -> "raise" [] OTHER -> "ok")

\* The receivers connected to the event_processed signal, and what each
\* does when it is called for an event.
Listeners == <<"l1", "l2">>
ListenerOutcome(l, e) == IF l = "l1" /\ e = "e1" THEN "raise" ELSE "ok"

\* ServiceHook rows that may exist for the project, and each one's events.
HookIds == {"h1", "h2", "h3"}
HookOrder == <<"h1", "h2", "h3">>
HookEvents(h) ==
    CASE h \in {"h1", "h4"} -> {"event.created"}
      [] h = "h2" -> {"event.alert"}
      [] OTHER    -> {"error.created"}

\* ServiceHook rows the organization's other projects may have.
OtherHookIds == {"h4", "h5"}

Statuses == {"unresolved", "resolved", "ignored"}
\* Group.platform, as its pieces and the separators between them; the empty
\* sequence is the empty (or unset) platform.
Platforms == {<<>>, <<"python">>, <<"objective", "-", "c">>, <<"java", "_", "x", "-", "y">>}
\* The collaborators a call may fail on: the dedup redis cluster, the cache,
\* the database (unreachable, or the row is gone) and the task broker.
Backends == {"redis", "cache", "store", "broker"}
\* A GroupSnooze row is named by what its is_valid(group, test_rates=True)
\* answers.
Snoozes == {None, "valid", "invalid"}

BoolStr(b) == IF b THEN "true" ELSE "false"

(* ------------------------------ state --------------------------------- *)
VARIABLES
    now,              \* time.time(), in seconds
    ticks,            \* clock advances so far
    lockCluster,      \* settings.SENTRY_POST_PROCESSING_LOCK_REDIS_CLUSTER is set
    redis,            \* pp:{project}/{event} -> expiry time (0: never set)
    status,           \* Group.status
    snooze,           \* the group's GroupSnooze row
    assignee,         \* the group's GroupAssignee row
    featServiceHooks, \* features.has('projects:servicehooks', project)
    hookStore,        \* ServiceHook rows of the project
    hookCache,        \* cache entry servicehooks:1:{project}
    hookChanges,      \* ServiceHook rows added or removed so far
    orgFeature,       \* features.has('organizations:integrations-event-hooks')
    orgOtherHooks,    \* ServiceHook rows of the organization's other projects
    useSampling,      \* options 'post-process.use-error-hook-sampling'
    sampleRate,       \* options 'post-process.error-hook-sample-rate', percent
    platform,         \* Group.platform
    errCache,         \* cache entry servicehooks-error-created:1:{project}
    pc,               \* each invocation's position
    ev,               \* each invocation's event
    has_reappeared,   \* each invocation's process_snoozes result
    has_alert,        \* each invocation's has_alert
    trace,            \* each invocation's calls so far
    dedupAt,          \* when each invocation ran the dedup check
    sawAbsent,        \* the dedup key was absent when the invocation started
    hookView,         \* what each invocation's hook fanout read
    notifyView,       \* what each invocation's resource-change stage did
    egroup,           \* each invocation's event.group (the Group it holds)
    down,             \* the collaborators whose calls fail at the moment
    faults,           \* failures and recoveries so far
    updates,          \* updates of the Group row and of the options so far
    lookups           \* the last two lookups made on their own (SpecHooks: of the
                      \* hook list; SpecErrorHooks: of the error-hook decision)

config == <<lockCluster, featServiceHooks, orgFeature, orgOtherHooks,
            useSampling, sampleRate, platform, down, faults, updates>>
clock == <<now, ticks>>
group == <<status, snooze, assignee>>
hooks == <<hookStore, hookCache, hookChanges>>
local == <<pc, ev, has_reappeared, has_alert, trace, dedupAt, sawAbsent, hookView, notifyView, egroup>>
vars == <<config, clock, redis, group, hooks, errCache, local, lookups>>

NoEntry == [present |-> FALSE, val |-> {}, exp |-> 0]
NoView == [done |-> FALSE, enabled |-> FALSE, store |-> {}, listed |-> {}, cache |-> None]
NoNotify == [done |-> FALSE, evaluated |-> FALSE, sampled |-> FALSE, draw |-> 0, rate |-> 0,
             result |-> FALSE, cacheGet |-> FALSE, cacheSet |-> FALSE, cache |-> None,
             tasks |-> <<>>]

\* An entry of an invocation's trace.
Call(op, arg) == <<op, arg>>
Did(i, op, arg) == \E k \in 1..Len(trace[i]) : trace[i][k] = Call(op, arg)
DidOp(i, op) == \E k \in 1..Len(trace[i]) : trace[i][k][1] = op
\* Position of the first call of an operation in a trace (0: none).
FirstOp(i, op) ==
    IF DidOp(i, op)
    THEN CHOOSE k \in 1..Len(trace[i]) :
            /\ trace[i][k][1] = op
            /\ \A j \in 1..(k - 1) : trace[i][j][1] # op
    ELSE 0
CountOp(i, op) == Cardinality({k \in 1..Len(trace[i]) : trace[i][k][1] = op})

\* Faulty variant: the exception is caught and logged, and the task goes on
\* with the plugins.
RaiseCaught(i, stage) ==
    /\ pc' = [pc EXCEPT ![i] = "plugins"]
    /\ trace' = [trace EXCEPT ![i] = Append(@, Call("raise", stage))]

\* An exception leaves post_process_group from the named stage: the task
\* fails.
Raise(i, stage) ==
    /\ pc' = [pc EXCEPT ![i] = "failed"]
    /\ trace' = [trace EXCEPT ![i] = Append(@, Call("raise", stage))]

\* A database call raises.
StoreFails == "store" \in down
\* A task's delay() raises.
BrokerFails == "broker" \in down

(* ------------------------------ dedup --------------------------------- *)
\* The redis key pp:{project_id}/{event_id} exists (set and not expired).
KeyPresent(e) == now < redis[e]

\* Faulty variant: the key is set without nx=True, so the SET always answers truthy.
SetWithoutNx(e) == TRUE

\* client.set(key, time, ex=3600, nx=True): truthy iff the key was set.
SetNxResult(e) == ~KeyPresent(e)

\* Faulty variant: the key expires after half an hour.
RedisAfterSetNxShort(e) ==
    IF KeyPresent(e) THEN redis ELSE [redis EXCEPT ![e] = now + 1800]

\* client.set(key, time, ex=3600, nx=True): the keys afterwards.
RedisAfterSetNx(e) ==
    IF KeyPresent(e) THEN redis ELSE [redis EXCEPT ![e] = now + DEDUP_TTL]

\* Faulty variant: without a lock cluster the check answers "duplicate".
check_none_is_duplicate(e) ==
    IF ~lockCluster THEN TRUE ELSE ~SetNxResult(e)

\* Faulty variant: "return result" in place of "return not result".
check_returns_result(e) ==
    IF ~lockCluster THEN FALSE ELSE SetNxResult(e)

\* check_event_already_post_processed(event): None (falsy) without a lock
\* cluster, otherwise "not result" of the SET NX.
check_event_already_post_processed(e) ==
    IF ~lockCluster THEN FALSE ELSE ~SetNxResult(e)

\* check_event_already_post_processed, lines 112-118: with a lock cluster
\* configured and unreachable, client.set raises; neither this function nor
\* post_process_group catches it.
SetRaises == lockCluster /\ "redis" \in down

\* The Group pickled with the event when the task is queued: the row as it
\* is then.
Pickled == [status |-> status, platform |-> platform, pickledPlatform |-> platform]

\* The scheduler queues the task for event e; a worker takes it.
Start(i, e) ==
    /\ pc[i] = "idle"
    /\ \A j \in Inv : j < i => pc[j] # "idle"
    /\ pc' = [pc EXCEPT ![i] = "dedup"]
    /\ ev' = [ev EXCEPT ![i] = e]
    /\ sawAbsent' = [sawAbsent EXCEPT ![i] = ~KeyPresent(e)]
    /\ egroup' = [egroup EXCEPT ![i] = Pickled]
    /\ UNCHANGED <<config, clock, redis, group, hooks, errCache, lookups,
                   has_reappeared, has_alert, trace, dedupAt, hookView, notifyView>>

\* post_process_group, lines 141-147: the dedup check; a duplicate is logged
\* and the task returns; an exception of the check leaves the task.
Dedup(i) ==
    /\ pc[i] = "dedup"
    /\ dedupAt' = [dedupAt EXCEPT ![i] = now]
    /\ IF SetRaises
       THEN /\ redis' = redis
            /\ Raise(i, "dedup")
       ELSE /\ redis' = (IF lockCluster THEN RedisAfterSetNx(ev[i]) ELSE redis)
            /\ IF check_event_already_post_processed(ev[i])
               THEN /\ pc' = [pc EXCEPT ![i] = "skipped"]
                    /\ trace' = trace
               ELSE /\ pc' = [pc EXCEPT ![i] = "rebind"]
                    /\ trace' = [trace EXCEPT ![i] =
                            Append(@, Call("dedup", IF lockCluster THEN "claimed" ELSE "off"))]
    /\ UNCHANGED <<config, clock, group, hooks, errCache, lookups,
                   ev, has_reappeared, has_alert, sawAbsent, hookView, notifyView, egroup>>

(* ------------------------- rebinding, metrics ------------------------- *)
\* str.split(sep, 1)[0]: the part of a platform before its first separator.
RECURSIVE BeforeFirst(_, _)
BeforeFirst(toks, sep) ==
    IF toks = <<>> \/ Head(toks) = sep
    THEN <<>>
    ELSE <<Head(toks)>> \o BeforeFirst(Tail(toks), sep)

\* _capture_stats, line 94: platform.split('-', 1)[0].split('_', 1)[0].
PlatformTag(p) ==
    LET t == BeforeFirst(BeforeFirst(p, "-"), "_") IN IF t = <<>> THEN "" ELSE t[1]

MetricOps == {"events.unique", "events.processed", "events.processed.{platform}",
              "events.size.data"}

\* Faulty variant: events.unique is counted whatever is_new is.
capture_stats_unique_always(g, e) ==
    IF g.platform = <<>>
    THEN <<>>
    ELSE <<Call("events.unique", PlatformTag(g.platform)),
           Call("events.processed", PlatformTag(g.platform)),
           Call("events.processed.{platform}", PlatformTag(g.platform)),
           Call("events.size.data", PlatformTag(g.platform))>>

\* _capture_stats(event, is_new): the metrics calls, in order, each with the
\* platform tag; none for a group without a platform (line 92).
capture_stats(g, e) ==
    IF g.platform = <<>>
    THEN <<>>
    ELSE (IF IsNew(e) THEN <<Call("events.unique", PlatformTag(g.platform))>> ELSE <<>>)
         \o <<Call("events.processed", PlatformTag(g.platform)),
              Call("events.processed.{platform}", PlatformTag(g.platform)),
              Call("events.size.data", PlatformTag(g.platform))>>

\* Faulty variant: the Group pickled with the event is kept.
KeepPickled(g) == g

\* get_group_with_redirect(event.group_id): the Group row as it is now.
Rebound(g) == [g EXCEPT !.status = status, !.platform = platform]

\* Faulty variant: _capture_stats is called before the rebinding.
StatsBeforeRebind(i) ==
    /\ pc[i] = "rebind"
    /\ IF StoreFails
       THEN /\ Raise(i, "rebind")
            /\ egroup' = egroup
       ELSE /\ egroup' = [egroup EXCEPT ![i] = Rebound(@)]
            /\ pc' = [pc EXCEPT ![i] = "snooze"]
            /\ trace' = [trace EXCEPT ![i] =
                    Append(@ \o capture_stats(egroup[i], ev[i]), Call("rebind", ""))]
    /\ UNCHANGED <<config, clock, redis, group, hooks, errCache, lookups,
                   ev, has_reappeared, has_alert, dedupAt, sawAbsent, hookView, notifyView>>

\* post_process_group, lines 157-174: event.data, event.group and
\* event.project are bound again from the store, then _capture_stats.
Rebind(i) ==
    /\ pc[i] = "rebind"
    /\ IF StoreFails
       THEN /\ Raise(i, "rebind")
            /\ egroup' = egroup
       ELSE /\ egroup' = [egroup EXCEPT ![i] = Rebound(@)]
            /\ pc' = [pc EXCEPT ![i] = "snooze"]
            /\ trace' = [trace EXCEPT ![i] =
                    Append(@, Call("rebind", "")) \o capture_stats(Rebound(egroup[i]), ev[i])]
    /\ UNCHANGED <<config, clock, redis, group, hooks, errCache, lookups,
                   ev, has_reappeared, has_alert, dedupAt, sawAbsent, hookView, notifyView>>

(* ------------------------------ snoozes ------------------------------- *)
\* Faulty variant: every policy that exists counts as valid.
is_valid_always(s) == TRUE

\* snooze.is_valid(group, test_rates=True) of the row that was read.
is_valid(s) == s = "valid"

\* process_snoozes, lines 244-251: the GroupSnooze row is read; without a
\* row, or with a valid one, the result is False.
SnoozeGet(i) ==
    /\ pc[i] = "snooze"
    /\ IF StoreFails
       THEN /\ Raise(i, "snooze")
            /\ has_reappeared' = has_reappeared
       ELSE /\ IF snooze = None \/ is_valid(snooze)
               THEN /\ pc' = [pc EXCEPT ![i] = "owner"]
                    /\ has_reappeared' = [has_reappeared EXCEPT ![i] = FALSE]
               ELSE /\ pc' = [pc EXCEPT ![i] = "snooze_delete"]
                    /\ has_reappeared' = has_reappeared
            /\ trace' = [trace EXCEPT ![i] = Append(@, Call("snooze_get", snooze))]
    /\ UNCHANGED <<config, clock, redis, group, hooks, errCache, lookups,
                   ev, has_alert, dedupAt, sawAbsent, hookView, notifyView, egroup>>

\* GroupSnooze.delete(): the store's delete by primary key; the row is gone
\* afterwards whether or not it was still there, and the call does not
\* raise for a row that is already gone.
delete(row) == None

\* Faulty variant: deleting a row that is already gone raises.
SnoozeDeleteStrict(i) ==
    /\ pc[i] = "snooze_delete"
    /\ IF StoreFails \/ snooze = None
       THEN /\ Raise(i, "snooze")
            /\ snooze' = snooze
       ELSE /\ snooze' = delete(snooze)
            /\ pc' = [pc EXCEPT ![i] = "snooze_update"]
            /\ trace' = [trace EXCEPT ![i] = Append(@, Call("snooze_delete", ""))]
    /\ UNCHANGED <<config, clock, redis, status, assignee, hooks, errCache, lookups,
                   ev, has_reappeared, has_alert, dedupAt, sawAbsent, hookView, notifyView, egroup>>

\* process_snoozes, line 252: snooze.delete().
SnoozeDelete(i) ==
    /\ pc[i] = "snooze_delete"
    /\ IF StoreFails
       THEN /\ Raise(i, "snooze")
            /\ snooze' = snooze
       ELSE /\ snooze' = delete(snooze)
            /\ pc' = [pc EXCEPT ![i] = "snooze_update"]
            /\ trace' = [trace EXCEPT ![i] = Append(@, Call("snooze_delete", ""))]
    /\ UNCHANGED <<config, clock, redis, status, assignee, hooks, errCache, lookups,
                   ev, has_reappeared, has_alert, dedupAt, sawAbsent, hookView, notifyView, egroup>>

\* Faulty variant: only a resolved group is set back to unresolved.
SnoozeUpdateResolvedOnly(i) ==
    /\ pc[i] = "snooze_update"
    /\ IF StoreFails
       THEN /\ Raise(i, "snooze")
            /\ UNCHANGED <<status, has_reappeared, egroup>>
       ELSE /\ status' = (IF status = "resolved" THEN "unresolved" ELSE status)
            /\ egroup' = [egroup EXCEPT ![i].status = status']
            /\ has_reappeared' = [has_reappeared EXCEPT ![i] = TRUE]
            /\ pc' = [pc EXCEPT ![i] = "owner"]
            /\ trace' = [trace EXCEPT ![i] = Append(@, Call("status_update", status))]
    /\ UNCHANGED <<config, clock, redis, snooze, assignee, hooks, errCache, lookups,
                   ev, has_alert, dedupAt, sawAbsent, hookView, notifyView>>

\* process_snoozes, lines 253-254: group.update(status=UNRESOLVED), which
\* writes the row and the Group the invocation holds; return True.  The
\* trace entry names the status the update replaces.
SnoozeUpdate(i) ==
    /\ pc[i] = "snooze_update"
    /\ IF StoreFails
       THEN /\ Raise(i, "snooze")
            /\ UNCHANGED <<status, has_reappeared, egroup>>
       ELSE /\ status' = "unresolved"
            /\ egroup' = [egroup EXCEPT ![i].status = "unresolved"]
            /\ has_reappeared' = [has_reappeared EXCEPT ![i] = TRUE]
            /\ pc' = [pc EXCEPT ![i] = "owner"]
            /\ trace' = [trace EXCEPT ![i] = Append(@, Call("status_update", status))]
    /\ UNCHANGED <<config, clock, redis, snooze, assignee, hooks, errCache, lookups,
                   ev, has_alert, dedupAt, sawAbsent, hookView, notifyView>>

(* ------------------------- owner assignment --------------------------- *)
\* GroupAssignee.objects.assign(group, owner): the store's conditional
\* assign, which assigns only a group that has no assignee.
assign(current, owner) == IF current = None THEN owner ELSE current

\* Faulty variant: the owner is written over whatever assignee the group has.
AssignedByOverwrite(current, owner) == owner

\* handle_owner_assignment, line 132: what the group's assignee becomes.
AssignedBy(current, owner) == assign(current, owner)

\* Faulty variant: the owner is assigned without asking whether there is one.
owner_assumed(owner) == TRUE

\* handle_owner_assignment, line 131: if owner is not None.
owner_is_not_none(owner) == owner # None

\* Faulty variant: the stage does not ask whether the group is assigned.
OwnerCheckNoExists(i) ==
    /\ pc[i] = "owner"
    /\ IF StoreFails
       THEN Raise(i, "owner")
       ELSE IF ~owner_is_not_none(get_autoassign_owner(ev[i]))
       THEN /\ pc' = [pc EXCEPT ![i] = "rules"]
            /\ trace' = [trace EXCEPT ![i] = Append(@, Call("owner_check", "no_owner"))]
       ELSE /\ pc' = [pc EXCEPT ![i] = "assign"]
            /\ trace' = [trace EXCEPT ![i] = Append(@, Call("owner_check", "unassigned"))]
    /\ UNCHANGED <<config, clock, redis, group, hooks, errCache, lookups,
                   ev, has_reappeared, has_alert, dedupAt, sawAbsent, hookView, notifyView, egroup>>

\* handle_owner_assignment, lines 127-131: an assigned group, or an event no
\* ownership rule matches, ends the stage.
OwnerCheck(i) ==
    /\ pc[i] = "owner"
    /\ IF StoreFails
       THEN Raise(i, "owner")
       ELSE IF assignee # None
       THEN /\ pc' = [pc EXCEPT ![i] = "rules"]
            /\ trace' = [trace EXCEPT ![i] = Append(@, Call("owner_check", "assigned"))]
       ELSE IF ~owner_is_not_none(get_autoassign_owner(ev[i]))
       THEN /\ pc' = [pc EXCEPT ![i] = "rules"]
            /\ trace' = [trace EXCEPT ![i] = Append(@, Call("owner_check", "no_owner"))]
       ELSE /\ pc' = [pc EXCEPT ![i] = "assign"]
            /\ trace' = [trace EXCEPT ![i] = Append(@, Call("owner_check", "unassigned"))]
    /\ UNCHANGED <<config, clock, redis, group, hooks, errCache, lookups,
                   ev, has_reappeared, has_alert, dedupAt, sawAbsent, hookView, notifyView, egroup>>

\* handle_owner_assignment, line 132: GroupAssignee.objects.assign(group, owner).
OwnerAssign(i) ==
    /\ pc[i] = "assign"
    /\ IF StoreFails
       THEN /\ Raise(i, "owner")
            /\ assignee' = assignee
       ELSE /\ assignee' = AssignedBy(assignee, get_autoassign_owner(ev[i]))
            /\ pc' = [pc EXCEPT ![i] = "rules"]
            /\ trace' = [trace EXCEPT ![i] =
                    Append(@, Call("assign", IF assignee = None THEN "applied" ELSE "kept"))]
    /\ UNCHANGED <<config, clock, redis, status, snooze, hooks, errCache, lookups,
                   ev, has_reappeared, has_alert, dedupAt, sawAbsent, hookView, notifyView, egroup>>

\* A user assigns the group by hand (outside the pipeline).
ManualAssign ==
    /\ assignee # ManualUser
    /\ assignee' = ManualUser
    /\ UNCHANGED <<config, clock, redis, status, snooze, hooks, errCache, lookups, local>>

(* -------------------------- rule evaluation --------------------------- *)
\* sentry.utils.safe.safe_execute(func, ...): runs func and answers whether
\* the call "returned" or "raised"; an exception of func is caught and
\* logged, so the call always returns.
safe_execute(outcome) == "returned"

\* Faulty variant: the callback is called directly, outside safe_execute.
RunCallbackDirect(outcome) == IF outcome = "ok" THEN "returned" ELSE "raised"

\* post_process_group, line 187: safe_execute(callback, event, futures).
RunCallback(outcome) == safe_execute(outcome)

\* Faulty variant: the RuleProcessor is built before the snoozes are processed.
RuleInputBeforeSnoozes(i) == FALSE

\* post_process_group, line 181: the has_reappeared the RuleProcessor gets.
RuleInput(i) == has_reappeared[i]

\* Faulty variant: has_alert is set only when a callback succeeded.
HasAlertIfSucceeded(cbs) == \E k \in 1..Len(cbs) : cbs[k] = "ok"

\* post_process_group, lines 182-186: has_alert after the loop.
HasAlertAfter(cbs) == cbs # <<>>

\* post_process_group, lines 185-187: the callbacks that are run, in order;
\* a call that raises ends the loop.
RECURSIVE CallbackCalls(_)
CallbackCalls(cbs) ==
    IF cbs = <<>>
    THEN <<>>
    ELSE <<Call("callback", Head(cbs))>>
         \o (IF RunCallback(Head(cbs)) = "raised" THEN <<>> ELSE CallbackCalls(Tail(cbs)))
CallbacksRaise(cbs) == \E k \in 1..Len(cbs) : RunCallback(cbs[k]) = "raised"

\* post_process_group, lines 181-187; rp.apply() reads the project's rules
\* and raises when it cannot.
Rules(i) ==
    LET cbs == RuleCallbacks(ev[i], RuleInput(i)) IN
    /\ pc[i] = "rules"
    /\ IF StoreFails
       THEN /\ Raise(i, "rules")
            /\ has_alert' = [has_alert EXCEPT ![i] = FALSE]
       ELSE /\ has_alert' = [has_alert EXCEPT ![i] = HasAlertAfter(cbs)]
            /\ trace' = [trace EXCEPT ![i] =
                    Append(@, Call("rules", BoolStr(RuleInput(i)))) \o CallbackCalls(cbs)]
            /\ pc' = [pc EXCEPT ![i] = IF CallbacksRaise(cbs) THEN "failed" ELSE "hooks"]
    /\ UNCHANGED <<config, clock, redis, group, hooks, errCache, lookups,
                   ev, has_reappeared, dedupAt, sawAbsent, hookView, notifyView, egroup>>

(* ---------------------------- hook fanout ----------------------------- *)
\* What a cache call does while the cache backend is unreachable is the
\* backend's choice: it raises, or it swallows the error (get answers None
\* and set stores nothing).
CacheOutcomes == IF "cache" \in down THEN {"raises", "swallows"} ELSE {"ok"}

\* Faulty variant: the entry is stored without a timeout.
HooksCacheHitNoExpiry == hookCache.present

\* cache.get(cache_key) is not None: the entry exists and has not expired.
HooksCacheHit == hookCache.present /\ now < hookCache.exp

\* _get_service_hooks(project_id) under cache outcome o: whether it raises
\* (nothing in it catches), the list it returns, and the cache entry it
\* leaves.
HooksLookupRaises(o) == o = "raises" \/ (~(o = "ok" /\ HooksCacheHit) /\ StoreFails)
get_service_hooks(o) == IF o = "ok" /\ HooksCacheHit THEN hookCache.val ELSE hookStore
CacheAfterGetServiceHooks(o) ==
    IF o # "ok" \/ HooksCacheHit
    THEN hookCache
    ELSE [present |-> TRUE, val |-> hookStore, exp |-> now + SERVICEHOOKS_TTL]
\* How the cache answered: "hit", "miss", or the outcome of a failing call.
CacheAnswer(o, hit) == IF o # "ok" THEN o ELSE IF hit THEN "hit" ELSE "miss"

\* Faulty variant: event.alert is allowed whatever has_alert is.
allowed_events_with_alert(alert) == {"event.created", "event.alert"}

\* post_process_group, lines 193-195.
allowed_events(alert) ==
    {"event.created"} \cup (IF alert THEN {"event.alert"} ELSE {})

\* post_process_group, line 199: any(e in allowed_events for e in events).
HookSelected(h, alert) == HookEvents(h) \cap allowed_events(alert) # {}

\* post_process_group, lines 198-203: the hooks process_service_hook.delay
\* is called for, in list order.
Dispatched(listed, alert) ==
    SelectSeq(HookOrder, LAMBDA h : h \in listed /\ HookSelected(h, alert))

HookCalls(listed, alert) ==
    LET d == Dispatched(listed, alert) IN [k \in 1..Len(d) |-> Call("hook", d[k])]

\* post_process_group, lines 189-203.
Hooks(i) ==
    \E o \in CacheOutcomes :
        /\ pc[i] = "hooks"
        /\ IF ~featServiceHooks
           THEN /\ pc' = [pc EXCEPT ![i] = "notify"]
                /\ hookCache' = hookCache
                /\ trace' = trace
                /\ hookView' = [hookView EXCEPT ![i] =
                        [done |-> TRUE, enabled |-> FALSE, store |-> hookStore,
                         listed |-> {}, cache |-> None]]
           ELSE IF HooksLookupRaises(o)
           THEN /\ Raise(i, "hooks")
                /\ hookCache' = hookCache
                /\ hookView' = [hookView EXCEPT ![i].cache = CacheAnswer(o, HooksCacheHit)]
           ELSE IF BrokerFails /\ Dispatched(get_service_hooks(o), has_alert[i]) # <<>>
           THEN /\ Raise(i, "hooks")
                /\ hookCache' = CacheAfterGetServiceHooks(o)
                /\ hookView' = [hookView EXCEPT ![i].cache = CacheAnswer(o, HooksCacheHit)]
           ELSE /\ pc' = [pc EXCEPT ![i] = "notify"]
                /\ hookCache' = CacheAfterGetServiceHooks(o)
                /\ trace' = [trace EXCEPT ![i] =
                        @ \o HookCalls(get_service_hooks(o), has_alert[i])]
                /\ hookView' = [hookView EXCEPT ![i] =
                        [done |-> TRUE, enabled |-> TRUE, store |-> hookStore,
                         listed |-> get_service_hooks(o),
                         cache |-> CacheAnswer(o, HooksCacheHit)]]
        /\ UNCHANGED <<config, clock, redis, group, hookStore, hookChanges, errCache, lookups,
                       ev, has_reappeared, has_alert, dedupAt, sawAbsent, notifyView, egroup>>

\* A ServiceHook row of the project is created or deleted.
ChangeHooks(h) ==
    /\ hookChanges < MaxHookChanges
    /\ hookChanges' = hookChanges + 1
    /\ hookStore' = IF h \in hookStore THEN hookStore \ {h} ELSE hookStore \cup {h}
    /\ UNCHANGED <<config, clock, redis, group, hookCache, errCache, lookups, local>>

(* ----------------------- resource-change tasks ------------------------ *)
\* Values random.random() may draw, in percent.
Draws == {0, 49, 50, 99}
\* Values of the option 'post-process.error-hook-sample-rate', in percent.
Rates == {0, 50, 100}

\* Faulty variant: the entry is stored without a timeout.
ErrCacheHitNoExpiry == errCache.present

\* cache.get(cache_key) is not None: the entry exists and has not expired.
ErrCacheHit == errCache.present /\ now < errCache.exp

\* ServiceHook.objects.filter(organization_id=org.id)
\*     .extra(where=["events @> '{error.created}'"]).exists()
OrgHasErrorCreatedHook ==
    \E h \in hookStore \cup orgOtherHooks : "error.created" \in HookEvents(h)

\* Faulty variant: the draw is compared with "<=" the rate.
sampled_at_most(r) == r <= sampleRate

\* _should_send_error_created_hooks, lines 63-66, with random.random()
\* drawing r: False when r >= the rate, True otherwise.
sampled(r) == ~(r >= sampleRate)

\* _should_send_error_created_hooks, lines 68-69: cache.get is called (not
\* in sampling mode), and it answers an entry.
ErrCacheGet == ~useSampling
ErrCacheAnswers(o) == ErrCacheGet /\ o = "ok" /\ ErrCacheHit

\* _should_send_error_created_hooks(project) with random.random() drawing r
\* and cache outcome o: whether it raises, what it returns, whether it calls
\* cache.set, and the cache entry it leaves.
ErrLookupRaises(o) ==
    ErrCacheGet /\ (o = "raises" \/ (~ErrCacheAnswers(o) /\ StoreFails))
should_send_error_created_hooks(r, o) ==
    IF useSampling THEN sampled(r)
    ELSE IF ErrCacheAnswers(o) THEN errCache.val
    ELSE IF ~orgFeature THEN FALSE
    ELSE OrgHasErrorCreatedHook
ErrCacheSet(o) == ErrCacheGet /\ ~ErrCacheAnswers(o) /\ ~ErrLookupRaises(o)
ErrCacheAfter(o) ==
    IF ErrCacheSet(o) /\ o = "ok"
    THEN [present |-> TRUE,
          val |-> (orgFeature /\ OrgHasErrorCreatedHook),
          exp |-> now + ERROR_HOOKS_TTL]
    ELSE errCache

\* The keyword arguments of process_resource_change_bound.delay.
ErrorTask(e) == [action |-> "created", sender |-> "Error", instance_id |-> e, instance |-> e]
GroupTask == [action |-> "created", sender |-> "Group", instance_id |-> GroupId,
              instance |-> None]

\* Faulty variant: the event's type is not asked for.
AnyTypeIsError(e) == TRUE

\* post_process_group, line 205: event.get_event_type() == 'error', the left
\* operand of the "and"; the right one is evaluated only when it is true.
IsErrorEvent(e) == EventType(e) = "error"

\* Faulty variant: the Group task is scheduled inside the error branch.
NewErrorOnly(e) == IsNew(e) /\ EventType(e) = "error"

\* post_process_group, line 212: if is_new.
SendsGroupCreated(e) == IsNew(e)

\* post_process_group, lines 205-217.
Notify(i) ==
    \E r \in Draws, o \in CacheOutcomes :
        LET isError == IsErrorEvent(ev[i])
            raises == isError /\ ErrLookupRaises(o)
            send == isError /\ ~raises /\ should_send_error_created_hooks(r, o)
            view == [done |-> FALSE, evaluated |-> isError,
                     sampled |-> isError /\ useSampling,
                     draw |-> IF isError /\ useSampling THEN r ELSE 0,
                     rate |-> IF isError /\ useSampling THEN sampleRate ELSE 0,
                     result |-> send,
                     cacheGet |-> isError /\ ErrCacheGet,
                     cacheSet |-> isError /\ ErrCacheSet(o),
                     cache |-> IF isError /\ ErrCacheGet
                               THEN CacheAnswer(o, ErrCacheHit) ELSE None,
                     tasks |-> <<>>]
            tasks == (IF send THEN <<ErrorTask(ev[i])>> ELSE <<>>)
                     \o (IF SendsGroupCreated(ev[i]) THEN <<GroupTask>> ELSE <<>>)
        IN
        /\ pc[i] = "notify"
        /\ IF raises
           THEN /\ Raise(i, "notify")
                /\ errCache' = errCache
                /\ notifyView' = [notifyView EXCEPT ![i] = view]
           ELSE IF BrokerFails /\ tasks # <<>>
           THEN /\ Raise(i, "notify")
                /\ errCache' = (IF isError THEN ErrCacheAfter(o) ELSE errCache)
                /\ notifyView' = [notifyView EXCEPT ![i] = view]
           ELSE /\ pc' = [pc EXCEPT ![i] = "plugins"]
                /\ errCache' = (IF isError THEN ErrCacheAfter(o) ELSE errCache)
                /\ notifyView' = [notifyView EXCEPT ![i] =
                        [view EXCEPT !.done = TRUE, !.tasks = tasks]]
                /\ trace' = [trace EXCEPT ![i] =
                        @ \o [k \in 1..Len(tasks) |-> Call("resource", tasks[k].sender)]]
        /\ UNCHANGED <<config, clock, redis, group, hooks, lookups,
                       ev, has_reappeared, has_alert, dedupAt, sawAbsent, hookView, egroup>>

(* ------------------------------ plugins ------------------------------- *)
\* plugin_post_process_group, lines 271-276:
\* safe_execute(plugin.post_process, ..., expected_errors=(PluginError,)).
RunPlugin(outcome) == safe_execute(outcome)

\* post_process_group, lines 220-226: the keyword arguments of
\* plugin_post_process_group, by name; plugin_post_process_group hands
\* event, group=event.group and the rest (**kwargs) on to
\* plugin.post_process (lines 271-276).
post_process_kwargs(e, g) ==
    [event |-> e, group |-> g, is_new |-> BoolStr(IsNew(e)),
     is_regresion |-> BoolStr(IsRegression(e)), is_sample |-> BoolStr(IsSample(e))]
\* What a callee finds under a parameter name: the argument passed by that
\* name, or nothing.
KwArg(kwargs, name) == IF name \in DOMAIN kwargs THEN kwargs[name] ELSE None

\* post_process_group, lines 219-226: the plugins that are invoked, in
\* order; a call that raises ends the loop.
RECURSIVE PluginCalls(_, _)
PluginCalls(ps, e) ==
    IF ps = <<>>
    THEN <<>>
    ELSE <<Call("plugin", Head(ps))>>
         \o (IF RunPlugin(PluginOutcome(Head(ps), e)) = "raised"
             THEN <<>> ELSE PluginCalls(Tail(ps), e))
PluginsRaise(ps, e) == \E k \in 1..Len(ps) : RunPlugin(PluginOutcome(ps[k], e)) = "raised"

\* Signal.send_robust(sender, **named): calls every receiver and answers
\* whether the call "returned" or "raised"; an exception of a receiver is
\* caught and handed back in the responses, so the call always returns.
send_robust(outcome) == "returned"

\* Faulty variant: the signal is sent with send(), which lets a receiver's
\* exception through.
SendSignalPlain(outcome) == IF outcome = "ok" THEN "returned" ELSE "raised"

\* post_process_group, lines 228-234: event_processed.send_robust(...).
SendSignal(outcome) == send_robust(outcome)

SignalRaises(e) ==
    \E k \in 1..Len(Listeners) : SendSignal(ListenerOutcome(Listeners[k], e)) = "raised"

\* post_process_group, lines 219-234: the plugins, then
\* event_processed.send_robust(...).
PluginFanout(i) ==
    /\ pc[i] = "plugins"
    /\ IF PluginsRaise(Plugins, ev[i])
       THEN /\ trace' = [trace EXCEPT ![i] = @ \o PluginCalls(Plugins, ev[i])]
            /\ pc' = [pc EXCEPT ![i] = "failed"]
       ELSE /\ trace' = [trace EXCEPT ![i] =
                            Append(@ \o PluginCalls(Plugins, ev[i]), Call("signal", ""))]
            /\ pc' = [pc EXCEPT ![i] = IF SignalRaises(ev[i]) THEN "failed" ELSE "done"]
    /\ UNCHANGED <<config, clock, redis, group, hooks, errCache, lookups,
                   ev, has_reappeared, has_alert, dedupAt, sawAbsent, hookView, notifyView, egroup>>

(* ------------------------------- clock -------------------------------- *)
\* Time passes: d seconds, at most max times.
Tick(d, max) ==
    /\ ticks < max
    /\ ticks' = ticks + 1
    /\ now' = now + d
    /\ UNCHANGED <<config, redis, group, hooks, errCache, lookups, local>>

(* ---------------------------- environment ----------------------------- *)
\* A collaborator becomes unreachable, or reachable again.
Outage(b) ==
    /\ faults < MaxFaults
    /\ faults' = faults + 1
    /\ down' = (IF b \in down THEN down \ {b} ELSE down \cup {b})
    /\ UNCHANGED <<lockCluster, featServiceHooks, orgFeature, orgOtherHooks, useSampling,
                   sampleRate, platform, updates, clock, redis, group, hooks, errCache,
                   lookups, local>>

\* A user edits the Group row: its status, or its platform.
UpdateGroup(st, pf) ==
    /\ updates < MaxUpdates
    /\ updates' = updates + 1
    /\ (st = status) # (pf = platform)
    /\ status' = st
    /\ platform' = pf
    /\ UNCHANGED <<lockCluster, featServiceHooks, orgFeature, orgOtherHooks, useSampling,
                   sampleRate, down, faults, clock, redis, snooze, assignee, hooks, errCache,
                   lookups, local>>

\* An operator switches the option 'post-process.use-error-hook-sampling'.
SetSampling ==
    /\ updates < MaxUpdates
    /\ updates' = updates + 1
    /\ useSampling' = ~useSampling
    /\ UNCHANGED <<lockCluster, featServiceHooks, orgFeature, orgOtherHooks, sampleRate,
                   platform, down, faults, clock, redis, group, hooks, errCache, lookups,
                   local>>

\* The scheduler delivers the task for event e while no other invocation
\* is running.
StartAlone(i, e) ==
    /\ \A j \in Inv : pc[j] \in {"idle", "skipped", "failed", "done"}
    /\ Start(i, e)

(* ------------------------- hook-list lookups -------------------------- *)
\* A call of _get_service_hooks(project_id) on its own; the last two calls
\* are kept: when each was made, what it returned, whether it read the
\* store, and the store's rows and change count at that moment.
LookupHooks ==
    \E o \in CacheOutcomes :
        /\ ~HooksLookupRaises(o)
        /\ hookCache' = CacheAfterGetServiceHooks(o)
        /\ lookups' = Append(IF Len(lookups) = 2 THEN Tail(lookups) ELSE lookups,
                             [t |-> now, result |-> get_service_hooks(o),
                              miss |-> ~(o = "ok" /\ HooksCacheHit),
                              store |-> hookStore, changes |-> hookChanges])
        /\ UNCHANGED <<config, clock, redis, group, hookStore, hookChanges, errCache, local>>

(* ---------------------- error-hook decisions ------------------------- *)
\* A call of _should_send_error_created_hooks(project) on its own; the last
\* two calls are kept: when each was made, what it returned, whether it
\* went past the cache (to the feature gate and the store), and the gate
\* and the ServiceHook rows at that moment.
LookupErrorHooks ==
    \E r \in Draws, o \in CacheOutcomes :
        /\ ~ErrLookupRaises(o)
        /\ errCache' = ErrCacheAfter(o)
        /\ lookups' = Append(IF Len(lookups) = 2 THEN Tail(lookups) ELSE lookups,
                             [t |-> now, result |-> should_send_error_created_hooks(r, o),
                              miss |-> ErrCacheGet /\ ~ErrCacheAnswers(o),
                              feature |-> orgFeature, store |-> hookStore,
                              org |-> orgOtherHooks])
        /\ UNCHANGED <<config, clock, redis, group, hooks, local>>

\* A ServiceHook row of another project of the organization is created or
\* deleted.
ChangeOrgHooks(h) ==
    /\ hookChanges < MaxHookChanges
    /\ hookChanges' = hookChanges + 1
    /\ orgOtherHooks' = IF h \in orgOtherHooks THEN orgOtherHooks \ {h}
                        ELSE orgOtherHooks \cup {h}
    /\ UNCHANGED <<lockCluster, featServiceHooks, orgFeature, useSampling, sampleRate,
                   platform, down, faults, updates, clock, redis, group, hookStore,
                   hookCache, errCache, lookups, local>>

\* The feature organizations:integrations-event-hooks is switched for the
\* organization.
SetFeature ==
    /\ updates < MaxUpdates
    /\ updates' = updates + 1
    /\ orgFeature' = ~orgFeature
    /\ UNCHANGED <<lockCluster, featServiceHooks, orgOtherHooks, useSampling, sampleRate,
                   platform, down, faults, clock, redis, group, hooks, errCache, lookups,
                   local>>

(* --------------------------- specifications --------------------------- *)
InitLocal ==
    /\ pc = [i \in Inv |-> "idle"]
    /\ ev = [i \in Inv |-> "e1"]
    /\ has_reappeared = [i \in Inv |-> FALSE]
    /\ has_alert = [i \in Inv |-> FALSE]
    /\ trace = [i \in Inv |-> <<>>]
    /\ dedupAt = [i \in Inv |-> 0]
    /\ sawAbsent = [i \in Inv |-> FALSE]
    /\ hookView = [i \in Inv |-> NoView]
    /\ notifyView = [i \in Inv |-> NoNotify]
    /\ egroup = [i \in Inv |-> [status |-> "unresolved", platform |-> <<>>,
                                 pickledPlatform |-> <<>>]]

InitStore ==
    /\ now = 0
    /\ ticks = 0
    /\ redis = [e \in AllEvents |-> 0]
    /\ assignee = None
    /\ hookCache = NoEntry
    /\ hookChanges = 0
    /\ errCache = NoEntry
    /\ lookups = <<>>
    /\ orgOtherHooks = {}
    /\ down = {}
    /\ faults = 0
    /\ updates = 0

\* The options as deployed by default: the feature on, no sampling.
InitOptions ==
    /\ orgFeature = TRUE
    /\ useSampling = FALSE
    /\ sampleRate = 0
    /\ platform = <<"python">>

\* The pipeline's steps.
Pipeline(i) ==
    \/ Dedup(i) \/ Rebind(i)
    \/ SnoozeGet(i) \/ SnoozeDelete(i) \/ SnoozeUpdate(i)
    \/ OwnerCheck(i) \/ OwnerAssign(i)
    \/ Rules(i) \/ Hooks(i) \/ Notify(i) \/ PluginFanout(i)

\* Spec: concurrent invocations and manual assignment.
Init ==
    /\ InitLocal
    /\ InitStore
    /\ InitOptions
    /\ lockCluster = TRUE
    /\ hookStore = HookIds
    /\ featServiceHooks \in BOOLEAN
    /\ snooze \in Snoozes
    /\ status \in (CASE snooze = None -> {"unresolved"}
                     [] snooze = "valid" -> {"ignored"}
                     [] OTHER -> Statuses)

Next ==
    \/ \E i \in Inv, e \in EventIds : Start(i, e)
    \/ \E i \in Inv : Pipeline(i)
    \/ ManualAssign

Spec == Init /\ [][Next]_vars

\* SpecFanout: concurrent invocations while ServiceHook rows change.
InitFanout ==
    /\ InitLocal
    /\ InitStore
    /\ InitOptions
    /\ lockCluster = TRUE
    /\ hookStore = {"h2", "h3"}
    /\ featServiceHooks \in BOOLEAN
    /\ snooze \in {None, "invalid"}
    /\ status = "ignored"

NextFanout ==
    \/ \E i \in Inv, e \in EventIds : Start(i, e)
    \/ \E i \in Inv : Pipeline(i)
    \/ \E h \in HookIds : ChangeHooks(h)

SpecFanout == InitFanout /\ [][NextFanout]_vars

\* SpecTTL: invocations while time passes.
InitTTL ==
    /\ InitLocal
    /\ InitStore
    /\ InitOptions
    /\ lockCluster = TRUE
    /\ hookStore = HookIds
    /\ featServiceHooks = TRUE
    /\ snooze = "invalid"
    /\ status = "resolved"

NextTTL ==
    \/ \E i \in Inv : Start(i, "e1")
    \/ \E i \in Inv : Pipeline(i)
    \/ Tick(1800, MaxTicks)

SpecTTL == InitTTL /\ [][NextTTL]_vars

\* SpecHooks: hook-list lookups, hook changes and time.
InitHooks ==
    /\ InitLocal
    /\ InitStore
    /\ InitOptions
    /\ lockCluster = TRUE
    /\ hookStore = HookIds
    /\ featServiceHooks = TRUE
    /\ snooze = None
    /\ status = "unresolved"

NextHooks ==
    \/ LookupHooks
    \/ \E h \in HookIds : ChangeHooks(h)
    \/ \E d \in {10, 55, 61} : Tick(d, MaxHookTicks)

SpecHooks == InitHooks /\ [][NextHooks]_vars

\* SpecOptions: deliveries one after another under each setting of the
\* error-hook options, while the sampling option is switched.
InitOptionsAny ==
    /\ InitLocal
    /\ InitStore
    /\ snooze = "invalid"
    /\ status = "resolved"
    /\ lockCluster = TRUE
    /\ platform = <<"python">>
    /\ useSampling = FALSE
    /\ sampleRate \in Rates
    /\ orgFeature \in BOOLEAN
    /\ featServiceHooks \in BOOLEAN
    /\ hookStore \in {HookIds, {"h1", "h2"}}

NextOptions ==
    \/ \E i \in Inv, e \in AllEvents : StartAlone(i, e)
    \/ \E i \in Inv : Pipeline(i)
    \/ SetSampling

SpecOptions == InitOptionsAny /\ [][NextOptions]_vars

\* SpecConfig: deliveries one after another with and without a lock
\* cluster, for each platform, while the Group row is edited.
InitConfig ==
    /\ InitLocal
    /\ InitStore
    /\ snooze = "invalid"
    /\ status = "resolved"
    /\ lockCluster \in BOOLEAN
    /\ platform \in Platforms
    /\ useSampling = FALSE
    /\ sampleRate = 0
    /\ orgFeature = TRUE
    /\ featServiceHooks = TRUE
    /\ hookStore = HookIds

NextConfig ==
    \/ \E i \in Inv, e \in EventIds : StartAlone(i, e)
    \/ \E i \in Inv : Pipeline(i)
    \/ \E st \in Statuses, pf \in Platforms : UpdateGroup(st, pf)

SpecConfig == InitConfig /\ [][NextConfig]_vars

\* SpecFaults: concurrent invocations while collaborators fail and recover.
InitFaults ==
    /\ InitLocal
    /\ InitStore
    /\ InitOptions
    /\ lockCluster = TRUE
    /\ hookStore = HookIds
    /\ featServiceHooks = TRUE
    /\ snooze = "invalid"
    /\ status = "resolved"

NextFaults ==
    \/ \E i \in Inv, e \in EventIds : Start(i, e)
    \/ \E i \in Inv : Pipeline(i)
    \/ \E b \in Backends : Outage(b)

SpecFaults == InitFaults /\ [][NextFaults]_vars

\* SpecErrorHooks: error-hook decisions while the feature and the
\* organization's ServiceHook rows change and time passes.
InitErrorHooks ==
    /\ InitLocal
    /\ InitStore
    /\ lockCluster = TRUE
    /\ platform = <<"python">>
    /\ useSampling = FALSE
    /\ sampleRate = 0
    /\ orgFeature \in BOOLEAN
    /\ featServiceHooks = TRUE
    /\ hookStore \in {{"h1", "h2"}, HookIds}
    /\ snooze = None
    /\ status = "unresolved"

NextErrorHooks ==
    \/ LookupErrorHooks
    \/ ChangeHooks("h3")
    \/ \E h \in OtherHookIds : ChangeOrgHooks(h)
    \/ SetFeature
    \/ \E d \in {30, 61} : Tick(d, MaxHookTicks)

SpecErrorHooks == InitErrorHooks /\ [][NextErrorHooks]_vars

\* SpecRetry: redeliveries of one event, one after another, while the
\* database or the broker is out for a time and time passes.
InitRetry ==
    /\ InitLocal
    /\ now = 0
    /\ ticks = 0
    /\ redis = [e \in AllEvents |-> 0]
    /\ assignee = None
    /\ hookCache = NoEntry
    /\ hookChanges = 0
    /\ errCache = NoEntry
    /\ lookups = <<>>
    /\ orgOtherHooks = {}
    /\ down \in {{}, {"store"}, {"broker"}}
    /\ faults = 0
    /\ updates = 0
    /\ InitOptions
    /\ lockCluster = TRUE
    /\ hookStore = HookIds
    /\ featServiceHooks = TRUE
    /\ snooze = "invalid"
    /\ status = "resolved"

NextRetry ==
    \/ \E i \in Inv : StartAlone(i, "e1")
    \/ \E i \in Inv : Pipeline(i)
    \/ \E b \in {"store", "broker"} : Outage(b)
    \/ Tick(1800, MaxTicks)

SpecRetry == InitRetry /\ [][NextRetry]_vars

(* ------------------------------ claims -------------------------------- *)
\* The invocation has run the dedup check / passed it.
RanDedup(i) == pc[i] \notin {"idle", "dedup"}
Claimed(i) == DidOp(i, "dedup")
Abs(x) == IF x < 0 THEN -x ELSE x

\* C1: with a lock cluster configured, of the invocations for one
\* (project, event) whose dedup checks lie less than the 3600 s TTL apart
\* only one passes the check, and it is the first (an event whose check has
\* run has been claimed by someone); an invocation that finds a duplicate
\* returns normally having made no call at all (no store write, no metric,
\* no task, no plugin, no signal); the invocation that passed makes each
\* stage's calls once.
C1_Idempotent ==
    lockCluster =>
        /\ \A i \in Inv : RanDedup(i) /\ ~Claimed(i) =>
                /\ pc[i] = "skipped"
                /\ trace[i] = <<>>
        /\ \A i, j \in Inv :
                (i # j /\ ev[i] = ev[j] /\ Claimed(i) /\ Claimed(j))
                    => Abs(dedupAt[i] - dedupAt[j]) >= DEDUP_TTL
        /\ \A i \in Inv : RanDedup(i) => \E j \in Inv : ev[j] = ev[i] /\ Claimed(j)
        /\ \A i \in Inv : pc[i] = "done" =>
                /\ CountOp(i, "dedup") = 1
                /\ CountOp(i, "rebind") = 1
                /\ CountOp(i, "rules") = 1
                /\ CountOp(i, "signal") = 1
                /\ \A p \in {Plugins[k] : k \in 1..Len(Plugins)} :
                        Cardinality({k \in 1..Len(trace[i]) : trace[i][k] = Call("plugin", p)}) = 1

\* A second delivery of an event, 1800 s after the first was claimed and
\* after the first has completed, was skipped.
C1_Witness ==
    \E i, j \in Inv :
        /\ i # j /\ ev[i] = ev[j]
        /\ pc[i] = "done" /\ pc[j] = "skipped"
        /\ dedupAt[j] - dedupAt[i] = 1800

\* C2: of the invocations for one event that started while its key was
\* absent, at most one passes the dedup check; once any of them has run the
\* check exactly one has passed it, and every other one that has run it is
\* skipped with no call made.  (No time passes in Spec: every check is
\* within the key's TTL.)
C2_AtomicClaim ==
    \A e \in EventIds :
        LET S == {i \in Inv : pc[i] # "idle" /\ ev[i] = e /\ sawAbsent[i]}
            ran == {i \in S : RanDedup(i)}
            won == {i \in S : Claimed(i)}
        IN  /\ Cardinality(won) <= 1
            /\ ran # {} => Cardinality(won) = 1
            /\ \A i \in ran \ won : pc[i] = "skipped" /\ trace[i] = <<>>

\* Two invocations for one event both started while the key was absent; one
\* passed the check and the other was skipped.
C2_Witness ==
    \E i, j \in Inv :
        /\ i # j /\ ev[i] = ev[j]
        /\ sawAbsent[i] /\ sawAbsent[j]
        /\ Claimed(i) /\ pc[j] = "skipped"

OpAt(i, k) == trace[i][k][1]
SnoozeOps == {"snooze_get", "snooze_delete", "status_update"}
EarlyOps == {"dedup", "rebind", "owner_check", "assign", "rules", "callback", "hook"}
              \cup MetricOps \cup SnoozeOps
LateOps == {"resource", "plugin", "signal"}

\* C3: within one invocation the dedup claim is the first call; every call
\* of the snooze evaluation comes before the rule evaluation, which gets as
\* has_reappeared the snooze evaluation's result; the rule evaluation and
\* its callbacks come before every hook delivery; and all of these come
\* before every resource-change task and every plugin call.
C3_StageOrder ==
    \A i \in Inv :
        LET n == Len(trace[i]) IN
        /\ n > 0 => OpAt(i, 1) = "dedup"
        /\ DidOp(i, "rules") =>
                /\ DidOp(i, "snooze_get")
                /\ \A k \in 1..n : OpAt(i, k) \in SnoozeOps => k < FirstOp(i, "rules")
                /\ trace[i][FirstOp(i, "rules")][2] = BoolStr(DidOp(i, "status_update"))
                /\ has_reappeared[i] = DidOp(i, "status_update")
        /\ hookView[i].done => DidOp(i, "rules")
        /\ \A k, l \in 1..n :
                OpAt(i, k) \in {"rules", "callback"} /\ OpAt(i, l) = "hook" => k < l
        /\ (\E k \in 1..n : OpAt(i, k) \in LateOps) => DidOp(i, "rules") /\ hookView[i].done
        /\ \A k, l \in 1..n : OpAt(i, k) \in EarlyOps /\ OpAt(i, l) \in LateOps => k < l

\* An invocation that ran every stage: a snooze that reappeared, callbacks,
\* hook deliveries, resource-change tasks and plugins.
C3_Witness ==
    \E i \in Inv :
        /\ pc[i] = "done"
        /\ DidOp(i, "status_update") /\ Did(i, "rules", "true")
        /\ DidOp(i, "callback") /\ DidOp(i, "hook")
        /\ DidOp(i, "resource") /\ DidOp(i, "plugin")

C5_OwnershipMonotonic ==
    /\ [](\A i \in Inv : Did(i, "owner_check", "assigned") =>
                ~DidOp(i, "assign") /\ pc[i] # "assign")
    /\ [][\A i \in Inv :
            (pc[i] = "owner" /\ assignee # None /\ pc'[i] # "owner")
                => (assignee' = assignee /\ pc'[i] = "rules")]_vars

\* The group was assigned by hand before the owner assignment of an event
\* an ownership rule matches, and the invocation completed.
C5_Witness ==
    \E i \in Inv :
        /\ Did(i, "owner_check", "assigned")
        /\ get_autoassign_owner(ev[i]) # None
        /\ assignee = ManualUser
        /\ pc[i] = "done"

\* C6: a group a user has assigned by hand stays assigned to that user
\* through every pipeline step, and the pipeline's assign changes the
\* assignee only of a group that is unassigned at that very step (to the
\* owner the ownership rules gave), also when the manual assignment lands
\* between the pipeline's check and its assign.
C6_NoRaceWithManual ==
    [][/\ (assignee = ManualUser => assignee' = ManualUser)
       /\ \A i \in Inv :
            (pc[i] = "assign" /\ pc'[i] # "assign" /\ assignee' # assignee)
                => (assignee = None /\ assignee' = get_autoassign_owner(ev[i]))]_vars

\* The manual assignment landed between an invocation's check and its
\* assign, and the assign left it in place.
C6_Witness ==
    \E i \in Inv :
        /\ Did(i, "owner_check", "unassigned")
        /\ Did(i, "assign", "kept")
        /\ assignee = ManualUser

\* The allowed event types of the fanout: event.created, and event.alert
\* iff has_alert.
FanoutAllowed(alert) == IF alert THEN {"event.created", "event.alert"} ELSE {"event.created"}

\* C7 as stated: a delivery task is scheduled for a hook registered (a
\* ServiceHook row of the project when the fanout runs) iff the capability
\* is enabled and the hook's events meet the allowed set.
C7_Original ==
    \A i \in Inv :
        hookView[i].done =>
            \A h \in hookView[i].store :
                Did(i, "hook", h)
                    <=> (hookView[i].enabled
                            /\ HookEvents(h) \cap FanoutAllowed(has_alert[i]) # {})

\* C7, amended: a delivery task is scheduled for a hook iff the capability
\* is enabled, the hook is in the list _get_service_hooks returned (the
\* project's rows as read up to 60 s earlier) and its events meet the allowed
\* set; each such hook gets one task.  So of the listed hooks one subscribed
\* only to event.alert is dispatched iff has_alert, one subscribed only to
\* event.created always, and none without the capability.
C7_Fanout ==
    \A i \in Inv :
        hookView[i].done =>
            /\ \A h \in HookIds :
                    Did(i, "hook", h)
                        <=> (/\ hookView[i].enabled
                             /\ h \in hookView[i].listed
                             /\ HookEvents(h) \cap FanoutAllowed(has_alert[i]) # {})
            /\ CountOp(i, "hook") = Cardinality({h \in HookIds : Did(i, "hook", h)})
            /\ ~hookView[i].enabled => ~DidOp(i, "hook")

\* With the capability on and no alert, of the listed hooks h1
\* (event.created) and h2 (event.alert) only h1 was dispatched.
C7_Witness ==
    \E i \in Inv :
        /\ hookView[i].done /\ hookView[i].enabled
        /\ ~has_alert[i]
        /\ {"h1", "h2"} \subseteq hookView[i].listed
        /\ Did(i, "hook", "h1") /\ ~Did(i, "hook", "h2")

\* C8: no invocation fails because a rule callback or a plugin raised; an
\* invocation past the rule stage has run every callback the evaluator
\* returned, raising ones included, in order; a completed invocation has
\* invoked every plugin, whatever the others did, has scheduled the
\* resource-change tasks its event calls for and has sent the signal.
C8_Isolation ==
    \A i \in Inv :
        /\ pc[i] # "failed"
        /\ DidOp(i, "rules") =>
                LET cbs == RuleCallbacks(ev[i], has_reappeared[i])
                    ran == SelectSeq(trace[i], LAMBDA c : c[1] = "callback")
                IN  ran = [k \in 1..Len(cbs) |-> Call("callback", cbs[k])]
        /\ pc[i] = "done" =>
                /\ SelectSeq(trace[i], LAMBDA c : c[1] = "plugin")
                        = [k \in 1..Len(Plugins) |-> Call("plugin", Plugins[k])]
                /\ IsNew(ev[i]) => Did(i, "resource", "Group")
                /\ (EventType(ev[i]) = "error" /\ orgFeature /\ ~useSampling
                        /\ OrgHasErrorCreatedHook) => Did(i, "resource", "Error")
                /\ Did(i, "signal", "")

\* A completed invocation whose first callback raised and whose first two
\* plugins raised (a PluginError and another exception): the second
\* callback and the third plugin ran, and the tasks and the signal went out.
C8_Witness ==
    \E i \in Inv :
        /\ pc[i] = "done"
        /\ RuleCallbacks(ev[i], has_reappeared[i]) = <<"raise", "ok">>
        /\ Did(i, "callback", "raise") /\ Did(i, "callback", "ok")
        /\ PluginOutcome("p1", ev[i]) = "PluginError"
        /\ PluginOutcome("p2", ev[i]) = "raise"
        /\ Did(i, "plugin", "p3")
        /\ Did(i, "resource", "Error") /\ Did(i, "resource", "Group")
        /\ Did(i, "signal", "")

\* C9: once an invocation is past the rule stage, has_alert is true iff the
\* evaluator returned at least one callback, whatever the callbacks did;
\* that is the value the fanout uses.
C9_HasAlert ==
    \A i \in Inv :
        DidOp(i, "rules") =>
            /\ has_alert[i] <=> (Len(RuleCallbacks(ev[i], has_reappeared[i])) > 0)
            /\ has_alert[i] <=> DidOp(i, "callback")
            /\ (hookView[i].done /\ hookView[i].enabled /\ "h2" \in hookView[i].listed) =>
                    (Did(i, "hook", "h2") <=> Len(RuleCallbacks(ev[i], has_reappeared[i])) > 0)

\* The only callback returned raised, and the hook subscribed to
\* event.alert was dispatched.
C9_Witness ==
    \E i \in Inv :
        /\ RuleCallbacks(ev[i], has_reappeared[i]) = <<"raise">>
        /\ has_alert[i]
        /\ Did(i, "callback", "raise") /\ ~Did(i, "callback", "ok")
        /\ Did(i, "hook", "h2")

\* The last two lookups were made with a change of the hooks in between.
ChangedBetween == Len(lookups) = 2 /\ lookups[1].changes # lookups[2].changes
Elapsed == lookups[2].t - lookups[1].t

\* C10 as stated: of two successive lookups with a change of the project's
\* hooks in between, the second returns the changed list when it is made
\* 61 s after the first, and the list as it was before the change when it
\* is made 10 s after the first.
C10_Original ==
    ChangedBetween =>
        /\ Elapsed = 61 => lookups[2].result = lookups[2].store
        /\ Elapsed = 10 => lookups[2].result = lookups[1].store

\* C10, amended: the second returns the store's list when it is made more
\* than 60 s after the first; when it is made less than 60 s after a first
\* lookup that read the store (a cache miss, which fills the cache), it
\* returns what the first returned, the list before the change.
C10_CacheTTL ==
    ChangedBetween =>
        /\ Elapsed > SERVICEHOOKS_TTL => lookups[2].result = lookups[2].store
        /\ (Elapsed < SERVICEHOOKS_TTL /\ lookups[1].miss) =>
                /\ lookups[2].result = lookups[1].store
                /\ lookups[2].result = lookups[1].result
                /\ ~lookups[2].miss

\* A lookup 10 s after one that filled the cache, with a change in between,
\* returned the list before the change and not the store's.
C10_Witness ==
    /\ ChangedBetween
    /\ Elapsed = 10
    /\ lookups[1].miss
    /\ lookups[2].result = lookups[1].store
    /\ lookups[2].result # lookups[2].store

\* The invocation's resource-change stage is over / is taking its step.
Notified(i) == notifyView[i].done
NotifyStep(i) == pc[i] = "notify" /\ pc'[i] # "notify"

\* C11: in sampling mode the error-hook decision is true iff the value drawn
\* is strictly below the sample rate, whatever the cache entry holds (so
\* never at rate 0 and always at rate 100 percent), and the Error task is
\* scheduled iff it is true; the decision calls neither cache.get nor
\* cache.set, and the step that takes it leaves the entry
\* servicehooks-error-created:1:{project} as it is.
C11_SampledNeverCached ==
    /\ [](\A i \in Inv : notifyView[i].sampled =>
            /\ ~notifyView[i].cacheGet /\ ~notifyView[i].cacheSet
            /\ notifyView[i].result <=> (notifyView[i].draw < notifyView[i].rate)
            /\ notifyView[i].rate = 0 => ~notifyView[i].result
            /\ notifyView[i].rate = 100 => notifyView[i].result
            /\ Notified(i) => (Did(i, "resource", "Error") <=> notifyView[i].result))
    /\ [][\A i \in Inv : (NotifyStep(i) /\ useSampling) => errCache' = errCache]_vars

\* After an unsampled decision cached "enabled", sampling was switched on
\* at rate 0: the next error event's decision was false, no Error task was
\* scheduled, and the cache entry still says "enabled".
C11_Witness ==
    \E i \in Inv :
        /\ Notified(i) /\ notifyView[i].sampled
        /\ notifyView[i].rate = 0
        /\ ~notifyView[i].result /\ ~Did(i, "resource", "Error")
        /\ errCache.present /\ errCache.val

\* C12 as stated: with a lock cluster configured, a dedup check whose
\* set-if-absent call fails counts as a claim: no invocation fails in the
\* dedup check, and one whose check ran is skipped or goes on to rebind.
C12_FailOpen ==
    \A i \in Inv :
        /\ ~Did(i, "raise", "dedup")
        /\ (RanDedup(i) /\ pc[i] # "skipped") => Claimed(i)

\* The tasks of one kind the invocation's resource-change stage scheduled.
TasksOf(i, kind) == SelectSeq(notifyView[i].tasks, LAMBDA t : t.sender = kind)

\* The invocation ran every stage: rebinding, snooze evaluation, owner
\* assignment, rule evaluation, hook fanout, resource-change tasks, every
\* plugin and the signal.
RanAllStages(i) ==
    /\ DidOp(i, "rebind") /\ DidOp(i, "snooze_get") /\ DidOp(i, "owner_check")
    /\ DidOp(i, "rules") /\ hookView[i].done /\ Notified(i)
    /\ CountOp(i, "plugin") = Len(Plugins)
    /\ Did(i, "signal", "")

\* C13: without a lock cluster no invocation is ever skipped as a duplicate,
\* whatever was delivered before: each passes the dedup check without a
\* redis call (no pp: key is ever set) and, once it has returned, has run
\* every stage.
C13_NoBackend ==
    /\ [](~lockCluster =>
            /\ \A e \in AllEvents : redis[e] = 0
            /\ \A i \in Inv :
                    /\ pc[i] # "skipped"
                    /\ RanDedup(i) => Did(i, "dedup", "off")
                    /\ pc[i] = "done" => RanAllStages(i))
    /\ [][~lockCluster => redis' = redis]_vars

\* Without a lock cluster two deliveries of the same event both ran every
\* stage.
C13_Witness ==
    \E i, j \in Inv :
        /\ ~lockCluster
        /\ i # j /\ ev[i] = ev[j]
        /\ pc[i] = "done" /\ pc[j] = "done"
        /\ RanAllStages(i) /\ RanAllStages(j)

\* C14: an invocation past the resource-change stage has scheduled the
\* Error task iff its event's type is "error" and
\* _should_send_error_created_hooks answered true; the task is one, with
\* action "created", the event's id as instance_id and the event as
\* instance; for an event of another type the function is not called (no
\* cache read or write, and the step leaves the cache entry as it is).
C14_ErrorNotification ==
    /\ [](\A i \in Inv : Notified(i) =>
            /\ notifyView[i].evaluated <=> (EventType(ev[i]) = "error")
            /\ Did(i, "resource", "Error")
                    <=> (EventType(ev[i]) = "error" /\ notifyView[i].result)
            /\ TasksOf(i, "Error") =
                    (IF EventType(ev[i]) = "error" /\ notifyView[i].result
                     THEN <<[action |-> "created", sender |-> "Error",
                             instance_id |-> ev[i], instance |-> ev[i]]>>
                     ELSE <<>>)
            /\ EventType(ev[i]) # "error" =>
                    /\ ~notifyView[i].cacheGet /\ ~notifyView[i].cacheSet
                    /\ ~notifyView[i].sampled /\ ~notifyView[i].result)
    /\ [][\A i \in Inv : (NotifyStep(i) /\ EventType(ev[i]) # "error")
                                => errCache' = errCache]_vars

\* With the feature on and an error.created hook registered, an error event
\* got its Error task and an event of another type, delivered first with
\* nothing cached, got none and left the cache empty.
C14_Witness ==
    \E i, j \in Inv :
        /\ Notified(i) /\ EventType(ev[i]) = "error"
        /\ notifyView[i].result /\ Did(i, "resource", "Error")
        /\ Notified(j) /\ EventType(ev[j]) # "error"
        /\ ~Did(j, "resource", "Error") /\ ~notifyView[j].evaluated
        /\ orgFeature /\ OrgHasErrorCreatedHook /\ ~useSampling

\* C15: an invocation past the resource-change stage has scheduled the
\* Group task iff is_new; the task is one, with action "created", the
\* group's id as instance_id and no instance; this whatever the event's
\* type, the error-hook decision and the service-hooks feature are.
C15_GroupNotification ==
    \A i \in Inv : Notified(i) =>
        /\ Did(i, "resource", "Group") <=> IsNew(ev[i])
        /\ TasksOf(i, "Group") =
                (IF IsNew(ev[i])
                 THEN <<[action |-> "created", sender |-> "Group",
                         instance_id |-> GroupId, instance |-> None]>>
                 ELSE <<>>)
        /\ \A k \in 1..Len(notifyView[i].tasks) :
                notifyView[i].tasks[k].sender \in {"Error", "Group"}

\* A new event that is not an error got its Group task with the
\* service-hooks feature off, and a new error event got it with the
\* error-hook decision false.
C15_Witness ==
    \E i, j \in Inv :
        /\ ~featServiceHooks
        /\ Notified(i) /\ IsNew(ev[i]) /\ EventType(ev[i]) # "error"
        /\ Did(i, "resource", "Group")
        /\ Notified(j) /\ IsNew(ev[j]) /\ EventType(ev[j]) = "error"
        /\ ~notifyView[j].result
        /\ Did(j, "resource", "Group") /\ ~Did(j, "resource", "Error")

\* The metrics calls of an invocation, and the platform tags they carry.
MetricCalls(i) == SelectSeq(trace[i], LAMBDA c : c[1] \in MetricOps)
MetricTags(i) == {MetricCalls(i)[k][2] : k \in 1..Len(MetricCalls(i))}

\* Each of events.processed, events.processed.{platform} and
\* events.size.data was recorded once, and events.unique once iff is_new.
CountedOnce(i) ==
    /\ CountOp(i, "events.processed") = 1
    /\ CountOp(i, "events.processed.{platform}") = 1
    /\ CountOp(i, "events.size.data") = 1
    /\ CountOp(i, "events.unique") = (IF IsNew(ev[i]) THEN 1 ELSE 0)

\* C16 as stated: every invocation past the rebinding has recorded the
\* processed counter, the per-platform counter and the size once each, and
\* the unique counter iff is_new, whatever the group's platform is.
C16_Original ==
    \A i \in Inv : DidOp(i, "rebind") => CountedOnce(i)

\* C16, amended: every invocation past the rebinding whose group has a
\* platform has recorded the three once each and events.unique iff is_new,
\* all under the tag made of the platform's first piece; one whose group's
\* platform is empty has recorded no metric at all.
C16_Metrics ==
    \A i \in Inv : DidOp(i, "rebind") =>
        IF egroup[i].platform # <<>>
        THEN /\ CountedOnce(i)
             /\ MetricTags(i) = {PlatformTag(egroup[i].platform)}
        ELSE MetricCalls(i) = <<>>

\* A new event of a group with a platform got all four metrics, and an
\* event of a group without a platform none.
C16_Witness ==
    \E i, j \in Inv :
        /\ DidOp(i, "rebind") /\ egroup[i].platform # <<>> /\ IsNew(ev[i])
        /\ Len(MetricCalls(i)) = 4
        /\ DidOp(j, "rebind") /\ egroup[j].platform = <<>>
        /\ MetricCalls(j) = <<>> /\ pc[j] = "done"

\* The stage an operation belongs to, in the order of the code.
StageOf(op) ==
    CASE op = "dedup" -> 1
      [] op = "rebind" -> 2
      [] op \in MetricOps -> 3
      [] op \in SnoozeOps -> 4
      [] op \in {"owner_check", "assign"} -> 5
      [] op \in {"rules", "callback"} -> 6
      [] op = "hook" -> 7
      [] op = "resource" -> 8
      [] op = "plugin" -> 9
      [] OTHER -> 10
RaisedIn(stage) ==
    CASE stage = "dedup" -> 1
      [] stage = "rebind" -> 2
      [] stage = "snooze" -> 4
      [] stage = "owner" -> 5
      [] stage = "rules" -> 6
      [] stage = "hooks" -> 7
      [] OTHER -> 8
Failed(i) == DidOp(i, "raise")

\* C17: an exception raised by a stage (the dedup check, the rebinding,
\* the snooze evaluation, the owner assignment, the rule evaluation, the
\* hook lookup or a task's delay) ends the invocation: the task has failed,
\* the exception is the last thing in its trace, no call of a later stage
\* was made (no plugin, no signal), the failing step wrote nothing to the
\* group or the dedup key, and the invocation takes no further step.
C17_Abort ==
    /\ [](\A i \in Inv : Failed(i) =>
            LET n == Len(trace[i]) IN
            /\ pc[i] = "failed"
            /\ trace[i][n][1] = "raise"
            /\ CountOp(i, "raise") = 1
            /\ \A k \in 1..(n - 1) : StageOf(OpAt(i, k)) <= RaisedIn(trace[i][n][2])
            /\ ~DidOp(i, "plugin") /\ ~DidOp(i, "signal")
            /\ (trace[i][n][2] # "notify") => ~DidOp(i, "resource")
            /\ (trace[i][n][2] \notin {"notify", "hooks"}) =>
                    ~DidOp(i, "hook") /\ ~hookView[i].done)
    /\ [][\A i \in Inv :
            /\ (pc[i] = "failed") =>
                    (pc'[i] = "failed" /\ trace'[i] = trace[i])
            /\ (pc[i] # "failed" /\ pc'[i] = "failed") =>
                    (Failed(i)' /\ group' = group /\ redis' = redis)]_vars

\* The broker went away before an invocation's hook fanout: the invocation
\* failed there, after its rule evaluation, and scheduled no task, ran no
\* plugin and sent no signal.
C17_Witness ==
    \E i \in Inv :
        /\ pc[i] = "failed"
        /\ Did(i, "raise", "hooks")
        /\ DidOp(i, "rules") /\ DidOp(i, "status_update")
        /\ ~DidOp(i, "hook") /\ ~DidOp(i, "resource")
        /\ ~DidOp(i, "plugin") /\ ~DidOp(i, "signal")

\* C18 as stated: a lookup of the hook list or of the error-hook decision
\* (not in sampling mode) that finds no cache entry, or finds the cache
\* backend failing, reads the store and returns the store's answer; the
\* failing backend makes no lookup raise.
C18_FailOpen ==
    \A i \in Inv :
        /\ hookView[i].cache # "raises"
        /\ notifyView[i].cache # "raises"
        /\ (hookView[i].done /\ hookView[i].cache \in {"miss", "swallows"}) =>
                hookView[i].listed = hookView[i].store
        /\ (Notified(i) /\ notifyView[i].cache \in {"miss", "swallows"}) =>
                (notifyView[i].result <=> (orgFeature /\ OrgHasErrorCreatedHook))

\* The order of the calls of a trace: each call's stage number is at least
\* that of the call before it.
InStageOrder(i, rank(_)) ==
    \A k, l \in 1..Len(trace[i]) : k < l => rank(OpAt(i, k)) <= rank(OpAt(i, l))

\* The stages in the order C19 states: plugins before the resource-change
\* tasks.
StatedStageOf(op) ==
    CASE op = "plugin" -> 8
      [] op = "resource" -> 9
      [] OTHER -> StageOf(op)

\* Every stage that always makes a call has made one.
EveryStageRan(i) ==
    /\ Did(i, "dedup", "claimed") /\ DidOp(i, "rebind")
    /\ DidOp(i, "events.processed") /\ DidOp(i, "snooze_get")
    /\ DidOp(i, "owner_check") /\ DidOp(i, "rules")
    /\ hookView[i].done /\ Notified(i)
    /\ CountOp(i, "plugin") = Len(Plugins)
    /\ CountOp(i, "signal") = 1

\* C19 as stated: a completed invocation has made its calls in the order
\* dedup, rebinding, metrics, snooze evaluation, owner assignment, rule
\* evaluation, hook fanout, plugins, resource-change tasks, signal.
C19_Original ==
    \A i \in Inv : pc[i] = "done" =>
        /\ EveryStageRan(i)
        /\ InStageOrder(i, StatedStageOf)
        /\ trace[i][Len(trace[i])] = Call("signal", "")

\* C19, amended: every invocation makes its calls in the order dedup,
\* rebinding, metrics, snooze evaluation, owner assignment, rule evaluation,
\* hook fanout, resource-change tasks, plugins, signal: every
\* resource-change task is scheduled before the first plugin is invoked.
\* A completed invocation has run each of these stages, the signal last.
C19_StageOrder ==
    \A i \in Inv :
        /\ InStageOrder(i, StageOf)
        /\ pc[i] = "done" =>
                /\ EveryStageRan(i)
                /\ trace[i][Len(trace[i])] = Call("signal", "")
                /\ \A k, l \in 1..Len(trace[i]) :
                        (OpAt(i, k) = "resource" /\ OpAt(i, l) = "plugin") => k < l

\* A completed invocation that made calls in every stage: metrics, a
\* status update, an assign, callbacks, hook deliveries, both
\* resource-change tasks, the plugins and the signal.
C19_Witness ==
    \E i \in Inv :
        /\ pc[i] = "done"
        /\ DidOp(i, "events.unique") /\ DidOp(i, "status_update")
        /\ Did(i, "assign", "applied") /\ DidOp(i, "callback") /\ DidOp(i, "hook")
        /\ Did(i, "resource", "Error") /\ Did(i, "resource", "Group")
        /\ Did(i, "plugin", "p3") /\ Did(i, "signal", "")

\* The invocation is taking the step that rebinds its group.
RebindStep(i) == pc[i] = "rebind" /\ pc'[i] = "snooze"

SnoozesReturned(i) ==
    /\ DidOp(i, "snooze_get")
    /\ pc[i] \notin {"snooze_delete", "snooze_update"}
    /\ ~Did(i, "raise", "snooze")

OwnerReturned(i) == DidOp(i, "owner_check") /\ pc[i] # "assign" /\ ~Did(i, "raise", "owner")

\* C22: an invocation that finds the group unassigned and an owner for its
\* event (the first matching ownership rule's) issues one assign, and an
\* assign applied to the unassigned group leaves exactly that owner as the
\* assignee (it stays so unless a user reassigns the group by hand); an
\* invocation for whose event no rule matches issues no assign, its owner
\* stage changes nothing, and while nobody has assigned the group it stays
\* unassigned.
C22_OwnerAssignment ==
    /\ [](\A i \in Inv : OwnerReturned(i) =>
            /\ Did(i, "owner_check", "unassigned") =>
                    /\ get_autoassign_owner(ev[i]) # None
                    /\ CountOp(i, "assign") = 1
                    /\ (Did(i, "assign", "applied") /\ assignee # ManualUser)
                            => assignee = get_autoassign_owner(ev[i])
            /\ get_autoassign_owner(ev[i]) = None =>
                    /\ ~DidOp(i, "assign")
                    /\ Did(i, "owner_check", "no_owner") \/ Did(i, "owner_check", "assigned"))
    /\ []((assignee # ManualUser /\ \A i \in Inv : ~Did(i, "assign", "applied"))
            => assignee = None)
    /\ [][\A i \in Inv :
            /\ (pc[i] = "assign" /\ pc'[i] = "rules" /\ assignee = None) =>
                    /\ assignee' = get_autoassign_owner(ev[i])
                    /\ assignee' = OwnershipRules[1].owner
            /\ (pc[i] = "owner" /\ pc'[i] # "owner" /\ assignee = None) =>
                    /\ assignee' = None
                    /\ pc'[i] = (IF get_autoassign_owner(ev[i]) = None
                                 THEN "rules" ELSE "assign")]_vars

\* One invocation assigned the unassigned group to the owner of the first
\* of two matching rules; another, for an event no rule matches, issued no
\* assign.
C22_Witness ==
    \E i, j \in Inv :
        /\ OwnerReturned(i) /\ Did(i, "assign", "applied")
        /\ assignee = "alice"
        /\ Cardinality({k \in 1..Len(OwnershipRules) : ev[i] \in OwnershipRules[k].matches}) = 2
        /\ OwnerReturned(j) /\ Did(j, "owner_check", "no_owner") /\ ~DidOp(j, "assign")

\* Some ServiceHook row among the given ones subscribes to error.created.
SubscribesError(rows) == \E h \in rows : "error.created" \in HookEvents(h)
\* The second of two decisions came less than the TTL after the first.
WithinErrorTTL == Len(lookups) = 2 /\ Elapsed < ERROR_HOOKS_TTL

\* C23 as stated: a decision computed on a cache miss is true iff the
\* feature is on and some hook of the project itself subscribes to
\* error.created.
C23_Original ==
    \A k \in 1..Len(lookups) : lookups[k].miss =>
        (lookups[k].result <=> (lookups[k].feature /\ SubscribesError(lookups[k].store)))

\* C23: not in sampling mode, a decision computed on a cache miss is true
\* iff the feature is on for the organization and some hook of the
\* organization (of this project or of another) subscribes to
\* error.created; it is cached for 60 s: a call less than 60 s after the
\* call that filled the cache returns that call's decision without going
\* to the feature or the store, whatever has changed since, and a call 60 s
\* or more after it computes the decision again; a cached entry is always
\* the decision of the call that filled it, expiring 60 s after that call.
C23_ErrorHookCache ==
    /\ \A k \in 1..Len(lookups) : lookups[k].miss =>
            (lookups[k].result <=>
                (lookups[k].feature /\ SubscribesError(lookups[k].store \cup lookups[k].org)))
    /\ (Len(lookups) = 2 /\ lookups[1].miss) =>
            IF Elapsed < ERROR_HOOKS_TTL
            THEN ~lookups[2].miss /\ lookups[2].result = lookups[1].result
            ELSE lookups[2].miss
    /\ (Len(lookups) = 2 /\ ~lookups[2].miss) =>
            /\ lookups[2].result = errCache.val
            /\ lookups[2].t < errCache.exp
    /\ \A k \in 1..Len(lookups) :
            (lookups[k].miss /\ k = Len(lookups)) =>
                /\ errCache.present
                /\ errCache.val = lookups[k].result
                /\ errCache.exp = lookups[k].t + ERROR_HOOKS_TTL

\* A decision of "yes" owed to a hook of another project was cached; the
\* feature was switched off within the 60 s and the next call still said
\* "yes" without reading it.
C23_Witness ==
    /\ WithinErrorTTL
    /\ lookups[1].miss /\ lookups[1].result
    /\ ~SubscribesError(lookups[1].store) /\ SubscribesError(lookups[1].org)
    /\ ~lookups[2].miss /\ lookups[2].result
    /\ ~lookups[2].feature

\* The keyword arguments plugin p's post_process got from the invocation.
PluginReceived(i, p) ==
    IF Did(i, "plugin", p) THEN post_process_kwargs(ev[i], egroup[i]) ELSE <<>>

\* C24 as stated: an invocation that has returned invoked every plugin of
\* the project exactly once, each with the event and the rebound group and
\* with is_new, is_regression and is_sample equal to the flags the
\* invocation was given, each under its own parameter name.
C24_PluginArguments ==
    \A i \in Inv : pc[i] = "done" =>
        \A k \in 1..Len(Plugins) :
            LET kw == PluginReceived(i, Plugins[k]) IN
            /\ Cardinality({n \in 1..Len(trace[i]) : trace[i][n] = Call("plugin", Plugins[k])}) = 1
            /\ KwArg(kw, "event") = ev[i]
            /\ KwArg(kw, "group") = egroup[i]
            /\ KwArg(kw, "is_new") = BoolStr(IsNew(ev[i]))
            /\ KwArg(kw, "is_sample") = BoolStr(IsSample(ev[i]))
            /\ KwArg(kw, "is_regression") = BoolStr(IsRegression(ev[i]))

\* Invocation j is a redelivery of the event of invocation i: it ran its
\* dedup check after i passed its own.
RedeliveryOf(j, i) ==
    /\ i # j /\ ev[i] = ev[j]
    /\ Claimed(i) /\ RanDedup(j)
    /\ (dedupAt[i] < dedupAt[j] \/ (dedupAt[i] = dedupAt[j] /\ ~Claimed(j)))

\* C25: the pipeline never deletes or shortens a pp: key: a key changes
\* only when a dedup check sets it, absent, to expire 3600 s later, and a
\* failing invocation leaves the key it claimed; a redelivery of an event
\* whose dedup check runs less than 3600 s after the check of an invocation
\* that failed is skipped with nothing done, so no call the failed
\* invocation did not reach is made by it; a redelivery whose check runs
\* 3600 s or more after every earlier claim of the event claims the key
\* again, and if it returns it has run every stage.
C25_LockKept ==
    /\ [](\A i, j \in Inv :
            (RedeliveryOf(j, i) /\ Failed(i) /\ dedupAt[j] < dedupAt[i] + DEDUP_TTL) =>
                /\ pc[j] = "skipped"
                /\ trace[j] = <<>>)
    /\ [](\A j \in Inv :
            (/\ \E i \in Inv : RedeliveryOf(j, i)
             /\ \A i \in Inv : RedeliveryOf(j, i) => dedupAt[j] >= dedupAt[i] + DEDUP_TTL
             /\ ~Did(j, "raise", "dedup")) =>
                /\ Did(j, "dedup", "claimed")
                /\ pc[j] = "done" => RanAllStages(j))
    /\ [](\A i \in Inv : (Claimed(i) /\ now < dedupAt[i] + DEDUP_TTL) => KeyPresent(ev[i]))
    /\ [][\A e \in AllEvents :
            /\ redis'[e] # redis[e] =>
                    /\ ~KeyPresent(e)
                    /\ redis'[e] = now + DEDUP_TTL
                    /\ \E i \in Inv : pc[i] = "dedup" /\ ev[i] = e /\ pc'[i] = "rebind"
            /\ \A i \in Inv :
                    (pc[i] # "failed" /\ pc'[i] = "failed" /\ Claimed(i) /\ ev[i] = e)
                        => redis'[e] = redis[e]]_vars

\* An invocation claimed the event and failed at the rebinding, the database
\* being out; the database came back, and the redelivery half an hour later
\* was skipped as a duplicate: nothing after the dedup check was ever done
\* for the event.
C25_Witness ==
    \E i, j \in Inv :
        /\ RedeliveryOf(j, i)
        /\ pc[i] = "failed" /\ Did(i, "raise", "rebind")
        /\ dedupAt[j] = dedupAt[i] + 1800
        /\ down = {}
        /\ pc[j] = "skipped" /\ trace[j] = <<>>
        /\ \A k \in Inv : ~DidOp(k, "rebind") /\ ~DidOp(k, "signal")

\* Some receiver of the event_processed signal raises for the event.
ListenerFails(e) == \E k \in 1..Len(Listeners) : ListenerOutcome(Listeners[k], e) = "raise"

\* C26: an invocation sends the event_processed signal at most once; one
\* that passed the dedup check and has ended without a failure sent it
\* once, as its last call, after its hook fanout, its resource-change
\* tasks and every plugin; an invocation skipped as a duplicate, or failed
\* in a stage, sent none; and an invocation that sent the signal has
\* returned normally, also when a receiver raised.
C26_CompletionSignal ==
    \A i \in Inv :
        /\ CountOp(i, "signal") <= 1
        /\ (Claimed(i) /\ pc[i] = "done") =>
                /\ CountOp(i, "signal") = 1
                /\ trace[i][Len(trace[i])] = Call("signal", "")
                /\ hookView[i].done /\ Notified(i)
                /\ CountOp(i, "resource") = Len(notifyView[i].tasks)
                /\ CountOp(i, "plugin") = Len(Plugins)
        /\ (pc[i] \in {"skipped", "failed"}) => ~DidOp(i, "signal")
        /\ DidOp(i, "signal") => (pc[i] = "done" /\ ~Failed(i))
        /\ (pc[i] \notin {"done", "skipped", "failed"}) => ~DidOp(i, "signal")

\* An invocation whose signal had a raising receiver returned normally
\* having sent it once; the other delivery of the same event was skipped
\* and sent none.
C26_Witness ==
    \E i, j \in Inv :
        /\ pc[i] = "done" /\ ListenerFails(ev[i])
        /\ CountOp(i, "signal") = 1 /\ DidOp(i, "resource")
        /\ ev[j] = ev[i] /\ pc[j] = "skipped" /\ ~DidOp(j, "signal")

\* Two invocations for different events of the group, at least one of which
\* read a policy that is not valid.
SnoozeRace(i, j) ==
    /\ i # j /\ ev[i] # ev[j]
    /\ Claimed(i) /\ Claimed(j)
    /\ Did(i, "snooze_get", "invalid") \/ Did(j, "snooze_get", "invalid")

====
